---- MODULE Spec2Model ----
(***************************************************************************)
(* Model of src/main.py (Brawlhalla ModLoader): the two import queues of   *)
(* ImportQueue, the Qt main thread that drains them (queueFile / queueUrl, *)
(* fileImport / urlImport), the engine controller thread, the poll timer   *)
(* and the notification router (controllerHandler) with the dialogs it     *)
(* drives.                                                                 *)
(*                                                                         *)
(* Specifications: Spec is the program with both import streams and a      *)
(* silent engine; SpecImport the file stream over every mods directory;    *)
(* SpecRouter the router with a talking engine and no imports; SpecLink    *)
(* and SpecFile one link / one file over every input text.                 *)
(*                                                                         *)
(* Threads: producers (addFile / addUrl callers), one wake worker per      *)
(* spawned _emitFile / _emitUrl, the runController thread and the Qt main  *)
(* thread.  The main thread is a call stack of frames: a slot invoked by   *)
(* the event loop is pushed on it, and QApplication.processEvents() lets   *)
(* the event loop push further slots on top of a frame that is waiting in  *)
(* it.  Every step below is one atomic piece of Python code (the GIL makes *)
(* list.append, list.pop and attribute stores atomic).                     *)
(*                                                                         *)
(* Library behaviour the model relies on: a signal emitted from a worker   *)
(* thread reaches its slot through the main thread's event queue; the      *)
(* event loop delivers queued slots and timer timeouts both from           *)
(* app.exec() and from processEvents(); an exception that leaves a slot is *)
(* printed by the binding and goes no further; a generator dropped while   *)
(* suspended at its yield runs none of the code after the loop; a function *)
(* decorated with QExecMainThread runs in place when called on the main    *)
(* thread; core.Controller.getData() never waits and returns the oldest    *)
(* envelope not yet returned; self.mods.mods is a dict keyed by mod hash,  *)
(* filled by addMod and emptied by removeAllMods; a dialog keeps one       *)
(* accept and one cancel callback.                                         *)
(***************************************************************************)
EXTENDS Integers, Sequences, FiniteSets, TLC

VARIABLES
  mainPc,      \* position of the main thread: __init__ steps, app.exec(), terminated
  javaFound,   \* JAVA_FOUND, fixed at import time
  controller,  \* self.controller: "None" or "Controller"
  ctrlPc,      \* position of the runController thread
  timerOn,     \* controllerGetterTimer started
  fatalShown,  \* the fatal error has been reported (line 214)
  queue,       \* urlQueue / fileQueue
  signal,      \* signalUrl / signalFile is not None
  readFlag,    \* _readUrlQueue / _readFileQueue
  adding,      \* producers in addUrl / addFile between the append and the flag test
  emitters,    \* live _emitUrl / _emitFile worker threads
  wakes,       \* emitted queueUrlSignal / queueFileSignal events not yet dispatched
  stack,       \* call stack of the main thread (innermost frame last)
  scratch,     \* the file Mods/_mod.archive: exists, number of open handles
  modsDir,     \* files of the mods directory: name |-> content
  commands,    \* history: commands sent to the engine controller
  reports,     \* history: showError calls
  pushed,      \* history: items passed to addUrl / addFile
  yielded,     \* history: items yielded by iterUrl / iterFile
  preReg,      \* history: number of items pushed before the wake signal was registered
  drained,     \* history: a drain has run to exhaustion
  escapes,     \* history: exceptions that left a slot
  outbox,      \* envelopes the engine has sent and getData() has not yet returned
  errors,      \* self.errors, the buffer of soft-error notifications
  mods,        \* self.mods.mods: hash |-> installed flag of the mod
  dialogs,     \* progressDialog / acceptDialog / buttonsDialog: shown or hidden,
               \* and the action of the Ok button of buttonsDialog
  produced,    \* history: envelopes sent by the engine
  handled      \* history: envelopes controllerHandler has dispatched on

\* the state of the notification router
routerVars == <<outbox, errors, mods, produced, handled>>

vars == <<mainPc, javaFound, controller, ctrlPc, timerOn, fatalShown, queue,
          signal, readFlag, adding, emitters, wakes, stack, scratch, modsDir,
          commands, reports, pushed, yielded, preReg, drained, escapes,
          routerVars, dialogs>>

(***************************************************************************)
(* Bounds of the model.                                                    *)
(***************************************************************************)
\* Items pushed in one run, over both queues.
MaxItems == 2
\* Envelopes the engine sends in one run.
MaxEnvelopes == 3
MaxClicks == 2

Kinds == {"file", "url"}

(***************************************************************************)
(* Inputs.  Texts the code takes apart (paths, links, archive entry names) *)
(* are sequences of tokens: each separator the code looks for is a token   *)
(* of its own and every other token is a run of characters free of them,   *)
(* so that a prefix of the text is a prefix of the sequence.  A file item  *)
(* is the pushed path: its directory, the basename split as                *)
(* os.path.splitext splits it, and whether the source can be opened for    *)
(* reading.  A url item is the pushed link.                                *)
(***************************************************************************)
FileStems == {"a"}
ModExt == ".bmod"

\* os.path.abspath(self.modsPath)
ModsPath == <<"/", "app", "/", "Mods">>
\* Directories a pushed file can lie in: the mods directory, a directory
\* below it, a sibling whose name begins with the name of the mods
\* directory, and an unrelated directory.
ModsSub == ModsPath \o <<"/", "sub">>
ModsBackup == ModsPath \o <<"Backup">>
Home == <<"/", "home">>
AllDirs == {ModsPath, ModsSub, ModsBackup, Home}
Dirs == {ModsPath, Home}

FilesIn(dirs, n) == { f \in [id : {n}, dir : dirs, stem : FileStems,
                              ext : {ModExt}, readable : BOOLEAN] :
                       f.dir # Home => f.readable }
FileItems(n) == FilesIn(Dirs, n)

\* Links: scheme, "://", then the comma separated fields.
Link(rest) == <<"bhmod", ":", "/", "/">> \o rest
AllUrls == { Link(<<"t", ",", "7", ",", "42">>),
             Link(<<"t", ",", "7", ",", "42", "/">>),
             Link(<<"t", ",", "7", ",", "4", ":", "2">>),
             Link(<<",", ",">>),
             Link(<<"t", ",", "7">>),
             Link(<<"t", ",", "7", ",", "42", ",", "x">>),
             Link(<<>>) }
Urls == { Link(<<"t", ",", "7", ",", "42">>), Link(<<"t", ",", "7">>) }

UrlsIn(urls, n) == [id : {n}, url : urls]
UrlItems(n) == UrlsIn(Urls, n)
NoItem == [id |-> 0]

(***************************************************************************)
(* Frames of the main thread's call stack.                                 *)
(***************************************************************************)
\* Local variables of urlImport that outlive a processEvents() call: zipUrl,
\* the archive format chosen from _signature, and the entries the loop has
\* still to extract.
NoLocals == [zipUrl |-> "", fmt |-> "", todo |-> <<>>, exc |-> ""]
Frame(fn, k, item, pc) ==
  [fn |-> fn, kind |-> k, item |-> item, pc |-> pc, loc |-> NoLocals]
Top == stack[Len(stack)]
Pop(s) == SubSeq(s, 1, Len(s) - 1)
SetTopPc(pc) == [stack EXCEPT ![Len(stack)].pc = pc]

\* Frames that are slots invoked by the event loop.
IsSlot(f) == f.fn \in {"queue", "controllerHandler"}

\* Positions of urlImport that sit inside QApplication.processEvents().
PePcs == {"pe1", "dl_hook", "extract_pe"}
InProcessEvents == stack # <<>> /\ Top.fn = "import" /\ Top.pc \in PePcs

\* The event loop can deliver an event: app.exec() idle, or processEvents().
CanDispatch == mainPc = "exec" /\ (stack = <<>> \/ InProcessEvents)

RECURSIVE SlotIndex(_, _)
SlotIndex(s, i) == IF i = 0 \/ IsSlot(s[i]) THEN i ELSE SlotIndex(s, i - 1)
\* An exception that no handler catches leaves the slot it was raised in:
\* every frame down to and including the innermost slot is unwound.
Unwind(s) == SubSeq(s, 1, SlotIndex(s, Len(s)) - 1)

Alive == mainPc # "terminated"

(***************************************************************************)
(* Initial state: module import done, ImportQueue() constructed (lines     *)
(* 86-93), ModLoader.__init__ about to register the wake signals.          *)
(***************************************************************************)
\* self.mods.mods before any mod was added, and after removeAllMods()
NoMods == [h \in {} |-> FALSE]

\* The three dialogs as constructed (lines 183-185): hidden.  The accept
\* dialog carries the mod its accept callback installs and the number of
\* the envelope that raised it.
NoAccept == [shown |-> FALSE, hash |-> "", env |-> 0]
NoDialogs == [progress |-> FALSE, accept |-> NoAccept, buttons |-> FALSE,
              ok |-> "hide"]

InitialMods == [n \in {"a" \o ModExt} |-> <<"orig", 0>>]

InitCommon ==
  /\ mainPc = "connect"
  /\ javaFound \in BOOLEAN
  /\ controller = "None"
  /\ ctrlPc = "idle"
  /\ timerOn = FALSE
  /\ fatalShown = FALSE
  /\ queue = [k \in Kinds |-> <<>>]
  /\ signal = [k \in Kinds |-> FALSE]
  /\ readFlag = [k \in Kinds |-> FALSE]
  /\ adding = [k \in Kinds |-> 0]
  /\ emitters = [k \in Kinds |-> 0]
  /\ wakes = [k \in Kinds |-> 0]
  /\ stack = <<>>
  /\ scratch = [exists |-> FALSE, holders |-> 0]
  /\ commands = <<>>
  /\ reports = <<>>
  /\ pushed = [k \in Kinds |-> <<>>]
  /\ yielded = [k \in Kinds |-> <<>>]
  /\ preReg = [k \in Kinds |-> 0]
  /\ drained = [k \in Kinds |-> FALSE]
  /\ escapes = 0
  /\ outbox = <<>>
  /\ errors = <<>>
  /\ mods = NoMods
  /\ dialogs = NoDialogs
  /\ produced = <<>>
  /\ handled = <<>>

Init == InitCommon /\ modsDir = InitialMods

(***************************************************************************)
(* ImportQueue: producers and wake workers.                                *)
(***************************************************************************)
\* list.append as a mutation would have it: insertion at the head.
EnqueueFront(q, item) == <<item>> \o q

\* self.urlQueue.append(url) / self.fileQueue.append(file)
Enqueue(q, item) == Append(q, item)

\* list.pop as a mutation would have it: pop() takes the last element.
PopBack(q) == [item |-> q[Len(q)], rest |-> SubSeq(q, 1, Len(q) - 1)]

\* self.urlQueue.pop(0) / self.fileQueue.pop(0)
PopFront(q) == [item |-> Head(q), rest |-> Tail(q)]

\* addUrl / addFile, first statement
addAppend(k, item) ==
  /\ Alive
  /\ Len(pushed["file"]) + Len(pushed["url"]) < MaxItems
  /\ queue' = [queue EXCEPT ![k] = Enqueue(@, item)]
  /\ pushed' = [pushed EXCEPT ![k] = Append(@, item)]
  /\ preReg' = IF signal[k] THEN preReg ELSE [preReg EXCEPT ![k] = @ + 1]
  /\ adding' = [adding EXCEPT ![k] = @ + 1]
  /\ UNCHANGED <<routerVars, dialogs>>
  /\ UNCHANGED <<mainPc, javaFound, controller, ctrlPc, timerOn, fatalShown,
                 signal, readFlag, emitters, wakes, stack, scratch, modsDir,
                 commands, reports, yielded, drained, escapes>>

\* a push of one of the given links / of a file of one of the given directories
addUrlOf(urls) ==
  \E item \in UrlsIn(urls, Len(pushed["url"]) + 1) : addAppend("url", item)

addFileOf(dirs) ==
  \E item \in FilesIn(dirs, Len(pushed["file"]) + 1) : addAppend("file", item)

addUrl == addUrlOf(Urls)

addFile == addFileOf(Dirs)

\* addUrl / addFile, second statement:
\*   if not self._readUrlQueue: threading.Thread(target=self._emitUrl).start()
SpawnsWake(k) == ~readFlag[k]

addSpawn(k) ==
  /\ Alive
  /\ adding[k] > 0
  /\ adding' = [adding EXCEPT ![k] = @ - 1]
  /\ emitters' = IF SpawnsWake(k) THEN [emitters EXCEPT ![k] = @ + 1] ELSE emitters
  /\ UNCHANGED <<routerVars, dialogs>>
  /\ UNCHANGED <<mainPc, javaFound, controller, ctrlPc, timerOn, fatalShown,
                 queue, signal, readFlag, wakes, stack, scratch, modsDir,
                 commands, reports, pushed, yielded, preReg, drained, escapes>>

\* the wake worker as a mutation would have it: the loop is not left after
\* the first successful emit, a second one follows.
emitTwice(k) ==
  /\ Alive
  /\ emitters[k] > 0
  /\ signal[k]
  /\ emitters' = [emitters EXCEPT ![k] = @ - 1]
  /\ wakes' = [wakes EXCEPT ![k] = @ + 2]
  /\ UNCHANGED <<routerVars, dialogs>>
  /\ UNCHANGED <<mainPc, javaFound, controller, ctrlPc, timerOn, fatalShown,
                 queue, signal, readFlag, adding, stack, scratch, modsDir,
                 commands, reports, pushed, yielded, preReg, drained, escapes>>

\* _emitUrl / _emitFile (lines 98-107, 126-135): a pass of the loop that
\* finds the signal None, or whose emit raises, sleeps and changes nothing
\* (a stuttering step); the pass that emits is the last one (break).
emit(k) ==
  /\ Alive
  /\ emitters[k] > 0
  /\ signal[k]
  /\ emitters' = [emitters EXCEPT ![k] = @ - 1]
  /\ wakes' = [wakes EXCEPT ![k] = @ + 1]
  /\ UNCHANGED <<routerVars, dialogs>>
  /\ UNCHANGED <<mainPc, javaFound, controller, ctrlPc, timerOn, fatalShown,
                 queue, signal, readFlag, adding, stack, scratch, modsDir,
                 commands, reports, pushed, yielded, preReg, drained, escapes>>

_emitUrl == emit("url")
_emitFile == emit("file")
addUrlSpawn == addSpawn("url")
addFileSpawn == addSpawn("file")

(***************************************************************************)
(* ModLoader.__init__ (lines 194-214) and the runController thread.        *)
(***************************************************************************)
\* line 197: self.importQueue.setUrlSignal(self.queueUrlSignal)
setUrlSignal ==
  /\ mainPc = "connect"
  /\ signal' = [signal EXCEPT !["url"] = TRUE]
  /\ mainPc' = "setFile"
  /\ UNCHANGED <<routerVars, dialogs>>
  /\ UNCHANGED <<javaFound, controller, ctrlPc, timerOn, fatalShown, queue,
                 readFlag, adding, emitters, wakes, stack, scratch, modsDir,
                 commands, reports, pushed, yielded, preReg, drained, escapes>>

\* line 198: self.importQueue.setFileSignal(self.queueFileSignal)
setFileSignal ==
  /\ mainPc = "setFile"
  /\ signal' = [signal EXCEPT !["file"] = TRUE]
  /\ mainPc' = "startCtrl"
  /\ UNCHANGED <<routerVars, dialogs>>
  /\ UNCHANGED <<javaFound, controller, ctrlPc, timerOn, fatalShown, queue,
                 readFlag, adding, emitters, wakes, stack, scratch, modsDir,
                 commands, reports, pushed, yielded, preReg, drained, escapes>>

\* lines 468-489, showError: the accept and the progress dialog are hidden
\* and the buttons dialog is shown with new buttons; its Ok button hides it
\* (line 480), or with terminate=True it is TerminateApp (line 483).
ShowError(d) == [progress |-> FALSE, accept |-> NoAccept, buttons |-> TRUE,
                 ok |-> "hide"]

ShowFatal(d) == [ShowError(d) EXCEPT !.ok = "TerminateApp"]

Report(title, by, text) == [title |-> title, by |-> by, text |-> text]
Command(cmd, by) == [cmd |-> cmd, by |-> by]
By(k, item) == <<k, item.id>>
Startup == <<"init", 0>>

\* lines 202-214: self.controller = None, then the controller thread and the
\* poll timer, or the fatal dialog; __init__ returns and app.exec() runs.
startController ==
  /\ mainPc = "startCtrl"
  /\ mainPc' = "exec"
  /\ IF javaFound
       THEN /\ ctrlPc' = "construct"
            /\ timerOn' = TRUE
            /\ UNCHANGED <<fatalShown, reports, dialogs>>
       ELSE /\ fatalShown' = TRUE
            /\ reports' = Append(reports, Report("Fatal Error:", Startup, "Java not found!"))
            /\ dialogs' = ShowFatal(dialogs)
            /\ UNCHANGED <<ctrlPc, timerOn>>
  /\ UNCHANGED routerVars
  /\ UNCHANGED <<javaFound, controller, queue, signal, readFlag, adding,
                 emitters, wakes, stack, scratch, modsDir, commands, pushed,
                 yielded, preReg, drained, escapes>>

\* lines 219-226, the controller thread: self.controller = core.Controller(),
\* then setModsPath, reloadMods, getModsData, installBaseMod.
runController ==
  /\ Alive
  /\ ctrlPc = "construct"
  /\ controller' = "Controller"
  /\ ctrlPc' = "done"
  /\ commands' = commands \o <<Command("setModsPath", Startup),
                               Command("reloadMods", Startup),
                               Command("getModsData", Startup),
                               Command("installBaseMod", Startup)>>
  /\ UNCHANGED <<routerVars, dialogs>>
  /\ UNCHANGED <<mainPc, javaFound, timerOn, fatalShown, queue, signal,
                 readFlag, adding, emitters, wakes, stack, scratch, modsDir,
                 reports, pushed, yielded, preReg, drained, escapes>>

\* lines 78-82, reached from the Ok button of the fatal dialog (line 484):
\* the click is an event of the main thread's event loop.
TerminateApp ==
  /\ CanDispatch
  /\ fatalShown
  /\ dialogs.buttons
  /\ dialogs.ok = "TerminateApp"
  /\ mainPc' = "terminated"
  /\ UNCHANGED <<routerVars, dialogs>>
  /\ UNCHANGED <<javaFound, controller, ctrlPc, timerOn, fatalShown, queue,
                 signal, readFlag, adding, emitters, wakes, stack, scratch,
                 modsDir, commands, reports, pushed, yielded, preReg, drained,
                 escapes>>

(***************************************************************************)
(* Slots invoked by the event loop.                                        *)
(***************************************************************************)
\* A queued queueUrlSignal / queueFileSignal emission is delivered: the slot
\* queueUrl / queueFile starts and calls iterUrl() / iterFile().
deliver(k) ==
  /\ CanDispatch
  /\ wakes[k] > 0
  /\ wakes' = [wakes EXCEPT ![k] = @ - 1]
  /\ stack' = Append(stack, Frame("queue", k, NoItem, "start"))
  /\ UNCHANGED <<routerVars, dialogs>>
  /\ UNCHANGED <<mainPc, javaFound, controller, ctrlPc, timerOn, fatalShown,
                 queue, signal, readFlag, adding, emitters, scratch, modsDir,
                 commands, reports, pushed, yielded, preReg, drained, escapes>>

queueUrl == deliver("url")
queueFile == deliver("file")

\* controllerGetterTimer.timeout (line 208): the slot controllerHandler starts.
timeout ==
  /\ CanDispatch
  /\ timerOn
  /\ stack' = Append(stack, Frame("controllerHandler", "none", NoItem, "start"))
  /\ UNCHANGED <<routerVars, dialogs>>
  /\ UNCHANGED <<mainPc, javaFound, controller, ctrlPc, timerOn, fatalShown,
                 queue, signal, readFlag, adding, emitters, wakes, scratch,
                 modsDir, commands, reports, pushed, yielded, preReg, drained,
                 escapes>>

(***************************************************************************)
(* The engine and the notification router (controllerHandler, lines        *)
(* 228-410).  An envelope is the tuple getData() returns: the command, and *)
(* for a Notification its kind; hash is the mod the envelope is about and  *)
(* list the mods data of a GetModsData envelope.                           *)
(***************************************************************************)
Hashes == {"h1", "h2"}

Envelope(cmd, ntype, hash, list) ==
  [cmd |-> cmd, ntype |-> ntype, hash |-> hash, list |-> list]
Notification(ntype, hash) == Envelope("Notification", ntype, hash, <<>>)
NoData == Envelope("", "", "", <<>>)

\* lines 337-352: the kinds that are buffered
SoftErrorKinds ==
  { "CompileModSourcesSpriteHasNoSymbolclass", "CompileModSourcesSpriteEmpty",
    "CompileModSourcesSpriteNotFoundInFolder",
    "CompileModSourcesUnsupportedCategory", "CompileModSourcesUnknownFile",
    "CompileModSourcesSaveError", "LoadingModIsEmpty",
    "InstallingModNotFoundFileElement", "InstallingModNotFoundGameSwf",
    "InstallingModSwfScriptError", "InstallingModSwfSoundSymbolclassNotExist",
    "InstallingModSoundNotExist", "InstallingModSwfSpriteSymbolclassNotExist",
    "InstallingModSpriteNotExist", "UninstallingModSwfOriginalElementNotFound",
    "UninstallingModSwfElementNotFound" }

\* The kinds that only move the loading text or the progress bar (lines
\* 242-254, 282-300, 312-326).
ProgressKinds ==
  { "LoadingMod", "ModElementsCount", "ModConflictSearchInSwf",
    "InstallingModSwf", "InstallingModSwfSprite", "InstallingModSwfSound",
    "InstallingModFile", "InstallingModFileCache", "UninstallingModSwf",
    "UninstallingModSwfSprite", "UninstallingModSwfSound",
    "UninstallingModFile" }

\* The envelopes the engine sends in the model: the four kinds that name a
\* mod for each hash, two soft errors (one that showErrorNotifications
\* formats, one it prints with repr), a progress kind, a kind and a command
\* the router has no branch for, and the commands that touch the mod table.
ModsData == <<[hash |-> "h1", installed |-> FALSE]>>
Envelopes ==
  { Notification(t, h) : t \in { "ModConflictNotFound", "ModConflict",
                                 "InstallingModFinished",
                                 "UninstallingModFinished" },
                         h \in Hashes }
  \cup { Notification(t, "h1") : t \in { "InstallingModNotFoundFileElement",
                                         "CompileModSourcesSaveError",
                                         "InstallingModSwf", "FutureKind" } }
  \cup { Envelope("ReloadMods", "", "", <<>>),
         Envelope("GetModsData", "", "", ModsData),
         Envelope("InstallMod", "", "h1", <<>>),
         Envelope("FutureCommand", "", "", <<>>) }

\* The engine process puts an envelope, one of envs, on the queue getData()
\* reads.
enginePushOf(envs) ==
  /\ Alive
  /\ controller = "Controller"
  /\ Len(produced) < MaxEnvelopes
  /\ \E env \in envs :
       /\ outbox' = Append(outbox, env)
       /\ produced' = Append(produced, env)
  /\ UNCHANGED <<mainPc, javaFound, controller, ctrlPc, timerOn, fatalShown,
                 queue, signal, readFlag, adding, emitters, wakes, stack,
                 scratch, modsDir, commands, reports, pushed, yielded, preReg,
                 drained, escapes, errors, mods, dialogs, handled>>

enginePush == enginePushOf(Envelopes)

\* self.controller.getData(): the oldest envelope not yet returned, or None;
\* it never waits.
GetData(box) ==
  IF box = <<>> THEN [data |-> NoData, rest |-> box]
  ELSE [data |-> Head(box), rest |-> Tail(box)]

\* The poll as a mutation would have it: getData() called twice, the first
\* result thrown away.
PollTwice(box) == GetData(GetData(box).rest)

\* line 232: data = self.controller.getData(), once per tick
Poll(box) == GetData(box)

\* What one call of controllerHandler may change, and whether it raised.
RouterState ==
  [commands |-> commands, errors |-> errors, mods |-> mods,
   dialogs |-> dialogs, reports |-> reports, raised |-> FALSE]

Engine(n) == <<"engine", n>>
Accept(n) == <<"accept", n>>
ModCommand(cmd, hash, by) == [cmd |-> cmd, by |-> by, hash |-> hash]

\* lines 423-452: the line of the report for one buffered notification; the
\* kinds without a format of their own are printed with repr (line 457).
Line(notif) ==
  CASE notif.ntype = "LoadingModIsEmpty" -> "Mod 'x' is empty"
    [] notif.ntype = "InstallingModNotFoundFileElement" ->
         "Not found element 'x' in bmod "
    [] notif.ntype = "InstallingModNotFoundGameSwf" -> "Not found game file 'x'"
    [] notif.ntype = "InstallingModSwfScriptError" -> "Script 'x' not installed"
    [] notif.ntype = "InstallingModSwfSoundSymbolclassNotExist" ->
         "Not found sound 'x' in 'y'"
    [] notif.ntype = "InstallingModSoundNotExist" ->
         "Not found sound 'x (y)' in 'z'"
    [] notif.ntype = "InstallingModSwfSpriteSymbolclassNotExist" ->
         "Not found sprite 'x' in 'y'"
    [] notif.ntype = "InstallingModSpriteNotExist" ->
         "Not found sprite 'x (y)' in mod file"
    [] notif.ntype = "UninstallingModSwfOriginalElementNotFound" ->
         "Not found orig element 'x' in 'y'"
    [] notif.ntype = "UninstallingModSwfElementNotFound" ->
         "Not found mod element 'x' in 'y'"
    [] OTHER -> "Notification(" \o notif.ntype \o ")"

\* lines 460-463: every line followed by a line break
RECURSIVE ErrorsText(_)
ErrorsText(buffer) ==
  IF buffer = <<>> THEN ""
  ELSE Line(Head(buffer)) \o "\n" \o ErrorsText(Tail(buffer))

\* lines 412-465, showErrorNotifications: with a non-empty buffer, the buffer
\* is copied and cleared and one report with all its lines is shown.
showErrorNotifications(r, n) ==
  IF r.errors = <<>> THEN r
  ELSE [r EXCEPT !.errors = <<>>,
                 !.reports = Append(@, Report("Errors:", Engine(n),
                                              ErrorsText(r.errors))),
                 !.dialogs = ShowError(@)]

\* ModConflictNotFound as a mutation would have it: no command.
NotFoundIgnored(r, env, n) == r

\* lines 255-258: progressDialog.setValue(0); controller.installMod(modHash)
ModConflictNotFound(r, env, n) ==
  [r EXCEPT !.commands = Append(@, ModCommand("installMod", env.hash, Engine(n)))]

\* ModConflict as a mutation would have it: the install goes out at once.
ModConflictInstalls(r, env, n) ==
  [r EXCEPT !.commands = Append(@, ModCommand("installMod", env.hash, Engine(n))),
            !.dialogs = [@ EXCEPT !.progress = FALSE,
                                  !.accept = [shown |-> TRUE, hash |-> env.hash,
                                              env |-> n]]]

\* lines 259-278: the accept dialog takes the callbacks for modHash, the
\* progress dialog is hidden and the accept dialog shown.
ModConflict(r, env, n) ==
  [r EXCEPT !.dialogs = [@ EXCEPT !.progress = FALSE,
                                  !.accept = [shown |-> TRUE, hash |-> env.hash,
                                              env |-> n]]]

\* lines 301-309 (installed = TRUE) and 327-335 (installed = FALSE):
\* self.mods.mods[modHash] raises KeyError for a hash that is not in the
\* table; otherwise the flag is set, the progress dialog hidden and the
\* buffer flushed.
ModFinished(r, env, n, installed) ==
  IF env.hash \notin DOMAIN r.mods
    THEN [r EXCEPT !.raised = TRUE]
    ELSE showErrorNotifications(
           [r EXCEPT !.mods = [@ EXCEPT ![env.hash] = installed],
                     !.dialogs = [@ EXCEPT !.progress = FALSE]], n)

\* The buffering test as a mutation would have it: every kind that is not a
\* progress kind is buffered.
IsNotProgress(ntype) == ntype \notin ProgressKinds

\* line 337: ntype in [...]
IsSoftError(ntype) == ntype \in SoftErrorKinds

\* lines 337-353 and the end of the chain: a soft error is appended to
\* self.errors; a kind with no branch changes nothing.
Buffered(r, env) ==
  IF IsSoftError(env.ntype) THEN [r EXCEPT !.errors = Append(@, env)] ELSE r

\* lines 358-371: self.mods.addMod(...) for every entry of data[1]
RECURSIVE addMods(_, _)
addMods(table, list) ==
  IF list = <<>> THEN table
  ELSE LET e == Head(list)
           added == [h \in DOMAIN table \cup {e.hash} |->
                       IF h = e.hash THEN e.installed ELSE table[h]]
       IN addMods(added, Tail(list))

\* lines 376-398: with searching / installing / uninstalling set, the mod is
\* looked up (KeyError when absent) and the progress dialog shown.
Started(r, env) ==
  IF env.hash \notin DOMAIN r.mods
    THEN [r EXCEPT !.raised = TRUE]
    ELSE [r EXCEPT !.dialogs = [@ EXCEPT !.progress = TRUE]]

\* lines 236-410, the dispatch on data[0] and on the notification kind for
\* envelope number n.
Dispatch(r, env, n) ==
  IF env.cmd = "Notification"
    THEN CASE env.ntype \in ProgressKinds -> r
           [] env.ntype = "ModConflictNotFound" -> ModConflictNotFound(r, env, n)
           [] env.ntype = "ModConflict" -> ModConflict(r, env, n)
           [] env.ntype = "InstallingModFinished" -> ModFinished(r, env, n, TRUE)
           [] env.ntype = "UninstallingModFinished" -> ModFinished(r, env, n, FALSE)
           [] OTHER -> Buffered(r, env)
    ELSE CASE env.cmd = "ReloadMods" -> [r EXCEPT !.mods = NoMods]
           [] env.cmd = "GetModsData" ->
                showErrorNotifications(
                  [r EXCEPT !.mods = addMods(@, env.list)], n)
           [] env.cmd \in {"GetModConflict", "InstallMod", "UninstallMod"} ->
                Started(r, env)
           [] OTHER -> r

\* lines 228-410, one tick of the poll timer: nothing when the controller is
\* None or getData() gives None, else the dispatch on the one envelope
\* taken.  An exception leaves the slot.
controllerHandler ==
  /\ Alive
  /\ stack # <<>>
  /\ Top.fn = "controllerHandler"
  /\ LET got == Poll(outbox)
         r == Dispatch(RouterState, got.data, Len(handled) + 1) IN
     IF controller = "None" \/ got.data = NoData
       THEN /\ stack' = Pop(stack)
            /\ UNCHANGED <<commands, reports, escapes, routerVars, dialogs>>
       ELSE /\ outbox' = got.rest
            /\ handled' = Append(handled, got.data)
            /\ commands' = r.commands
            /\ errors' = r.errors
            /\ mods' = r.mods
            /\ dialogs' = r.dialogs
            /\ reports' = r.reports
            /\ stack' = IF r.raised THEN Unwind(stack) ELSE Pop(stack)
            /\ escapes' = IF r.raised THEN escapes + 1 ELSE escapes
            /\ UNCHANGED produced
  /\ UNCHANGED <<mainPc, javaFound, controller, ctrlPc, timerOn, fatalShown,
                 queue, signal, readFlag, adding, emitters, wakes, scratch,
                 modsDir, pushed, yielded, preReg, drained>>

\* The accept button of the conflict dialog (line 274):
\*   [self.acceptDialog.hide(), self.controller.installMod(modHash)]
acceptClick ==
  /\ CanDispatch
  /\ dialogs.accept.shown
  /\ dialogs' = [dialogs EXCEPT !.accept = NoAccept]
  /\ commands' = Append(commands, ModCommand("installMod", dialogs.accept.hash,
                                             Accept(dialogs.accept.env)))
  /\ UNCHANGED <<mainPc, javaFound, controller, ctrlPc, timerOn, fatalShown,
                 queue, signal, readFlag, adding, emitters, wakes, stack,
                 scratch, modsDir, reports, pushed, yielded, preReg, drained,
                 escapes, routerVars>>

\* The cancel button of the conflict dialog (line 275): self.acceptDialog.hide
cancelClick ==
  /\ CanDispatch
  /\ dialogs.accept.shown
  /\ dialogs' = [dialogs EXCEPT !.accept = NoAccept]
  /\ UNCHANGED <<mainPc, javaFound, controller, ctrlPc, timerOn, fatalShown,
                 queue, signal, readFlag, adding, emitters, wakes, stack,
                 scratch, modsDir, commands, reports, pushed, yielded, preReg,
                 drained, escapes, routerVars>>

(***************************************************************************)
(* The install, uninstall and reinstall buttons of the mods screen (lines  *)
(* 178-180, 525-539).  A mod button exists for a mod of the table, and the *)
(* table is filled from the engine's mods data, so a mod is selected only  *)
(* once the controller exists.                                             *)
(***************************************************************************)
Ui(n) == <<"ui", n>>
Clicks == {commands[i].by : i \in {j \in 1..Len(commands) : commands[j].by[1] = "ui"}}

\* installMod as a mutation would have it: the install goes out unchecked.
InstallDirectly(hash, by) == <<ModCommand("installMod", hash, by)>>

\* line 528: self.controller.getModConflict(modClass.hash)
InstallCommands(hash, by) == <<ModCommand("getModConflict", hash, by)>>

\* line 533: self.controller.uninstallMod(modClass.hash)
UninstallCommands(hash, by) == <<ModCommand("uninstallMod", hash, by)>>

\* lines 538-539: uninstallMod, then getModConflict
ReinstallCommands(hash, by) ==
  UninstallCommands(hash, by) \o InstallCommands(hash, by)

\* a button is clicked with the mod hash selected
click(hash, cmds) ==
  /\ CanDispatch
  /\ controller = "Controller"
  /\ hash \in DOMAIN mods
  /\ Cardinality(Clicks) < MaxClicks
  /\ commands' = commands \o cmds
  /\ UNCHANGED <<mainPc, javaFound, controller, ctrlPc, timerOn, fatalShown,
                 queue, signal, readFlag, adding, emitters, wakes, stack,
                 scratch, modsDir, reports, pushed, yielded, preReg, drained,
                 escapes, routerVars, dialogs>>

installMod ==
  \E h \in Hashes : click(h, InstallCommands(h, Ui(Cardinality(Clicks) + 1)))

uninstallMod ==
  \E h \in Hashes : click(h, UninstallCommands(h, Ui(Cardinality(Clicks) + 1)))

reinstallMod ==
  \E h \in Hashes : click(h, ReinstallCommands(h, Ui(Cardinality(Clicks) + 1)))

(***************************************************************************)
(* iterUrl / iterFile, as driven by the for loop of queueUrl / queueFile.  *)
(***************************************************************************)
\* line 116 / 144: self._readUrlQueue = True
iterStart(k) ==
  /\ Alive
  /\ stack # <<>>
  /\ Top.fn = "queue" /\ Top.kind = k /\ Top.pc = "start"
  /\ readFlag' = [readFlag EXCEPT ![k] = TRUE]
  /\ stack' = SetTopPc("loop")
  /\ UNCHANGED <<routerVars, dialogs>>
  /\ UNCHANGED <<mainPc, javaFound, controller, ctrlPc, timerOn, fatalShown,
                 queue, signal, adding, emitters, wakes, scratch, modsDir,
                 commands, reports, pushed, yielded, preReg, drained, escapes>>

\* lines 118-119 / 146-147: while self.urlQueue: yield self.urlQueue.pop(0);
\* the loop body of the slot calls urlImport(url) / fileImport(file).
iterNext(k) ==
  /\ Alive
  /\ stack # <<>>
  /\ Top.fn = "queue" /\ Top.kind = k /\ Top.pc = "loop"
  /\ IF queue[k] # <<>>
       THEN LET p == PopFront(queue[k]) IN
            /\ queue' = [queue EXCEPT ![k] = p.rest]
            /\ yielded' = [yielded EXCEPT ![k] = Append(@, p.item)]
            /\ stack' = Append(stack, Frame("import", k, p.item, "begin"))
       ELSE /\ stack' = SetTopPc("end")
            /\ UNCHANGED <<queue, yielded>>
  /\ UNCHANGED <<routerVars, dialogs>>
  /\ UNCHANGED <<mainPc, javaFound, controller, ctrlPc, timerOn, fatalShown,
                 signal, readFlag, adding, emitters, wakes, scratch, modsDir,
                 commands, reports, pushed, preReg, drained, escapes>>

\* line 121 / 149: self._readUrlQueue = False; the generator is exhausted and
\* the slot returns.
iterEnd(k) ==
  /\ Alive
  /\ stack # <<>>
  /\ Top.fn = "queue" /\ Top.kind = k /\ Top.pc = "end"
  /\ readFlag' = [readFlag EXCEPT ![k] = FALSE]
  /\ drained' = [drained EXCEPT ![k] = TRUE]
  /\ stack' = Pop(stack)
  /\ UNCHANGED <<routerVars, dialogs>>
  /\ UNCHANGED <<mainPc, javaFound, controller, ctrlPc, timerOn, fatalShown,
                 queue, signal, adding, emitters, wakes, scratch, modsDir,
                 commands, reports, pushed, yielded, preReg, escapes>>

iterUrl == iterStart("url") \/ iterNext("url") \/ iterEnd("url")
iterFile == iterStart("file") \/ iterNext("file") \/ iterEnd("file")

(***************************************************************************)
(* fileImport (lines 640-659) and reloadMods (lines 558-562).              *)
(***************************************************************************)
\* os.path.split(filePath)[1]
Basename(item) == item.stem \o item.ext

\* f"{fileNameSplit[0]} ({i}){fileNameSplit[1]}"
Numbered(item, i) == item.stem \o " (" \o ToString(i) \o ")" \o item.ext

\* lines 650-652: i = 1; while os.path.exists(...): i += 1
RECURSIVE FreeCounter(_, _, _)
FreeCounter(dir, item, i) ==
  IF Numbered(item, i) \in DOMAIN dir THEN FreeCounter(dir, item, i + 1) ELSE i

\* The destination as a mutation would have it: the basename, used or not.
DestNameOverwrite(dir, item) == Basename(item)

\* lines 646-653: the destination file name inside the mods directory
DestName(dir, item) ==
  IF Basename(item) \in DOMAIN dir
    THEN Numbered(item, FreeCounter(dir, item, 1))
    ELSE Basename(item)

\* open(path, "wb") followed by write: the file is created or replaced.
WriteFile(dir, name, content) ==
  [n \in DOMAIN dir \cup {name} |-> IF n = name THEN content ELSE dir[n]]

\* lines 561-562: self.controller.reloadMods(); self.controller.getModsData()
ReloadCommands(by) == <<Command("reloadMods", by), Command("getModsData", by)>>

\* The whole of fileImport; it has no processEvents() inside, so the main
\* thread runs it in one piece.  An exception (the source cannot be opened,
\* self.controller is None in reloadMods) is caught nowhere and leaves the
\* slot queueFile, whose generator is dropped before line 149.
\* str.startswith / bytes.startswith
StartsWith(text, prefix) ==
  Len(prefix) <= Len(text) /\ SubSeq(text, 1, Len(prefix)) = prefix

\* os.path.abspath(filePath)
AbsPath(item) == item.dir \o <<"/", item.stem, item.ext>>

\* line 643: os.path.abspath(filePath).startswith(os.path.abspath(self.modsPath))
InModsPath(item) == StartsWith(AbsPath(item), ModsPath)

fileImport ==
  /\ Alive
  /\ stack # <<>>
  /\ Top.fn = "import" /\ Top.kind = "file" /\ Top.pc = "begin"
  /\ LET item == Top.item
         by == By("file", item) IN
     IF InModsPath(item)
       THEN \* line 643-644
            /\ stack' = Pop(stack)
            /\ UNCHANGED <<modsDir, commands, escapes>>
       ELSE IF ~item.readable
         THEN \* line 655 raises
              /\ stack' = Unwind(stack)
              /\ escapes' = escapes + 1
              /\ UNCHANGED <<modsDir, commands>>
         ELSE /\ modsDir' = WriteFile(modsDir, DestName(modsDir, item), by)
              /\ IF controller = "None"
                   THEN \* line 561 raises AttributeError
                        /\ stack' = Unwind(stack)
                        /\ escapes' = escapes + 1
                        /\ UNCHANGED commands
                   ELSE /\ commands' = commands \o ReloadCommands(by)
                        /\ stack' = Pop(stack)
                        /\ UNCHANGED escapes
  /\ UNCHANGED <<routerVars, dialogs>>
  /\ UNCHANGED <<mainPc, javaFound, controller, ctrlPc, timerOn, fatalShown,
                 queue, signal, readFlag, adding, emitters, wakes, scratch,
                 reports, pushed, yielded, preReg, drained>>

(***************************************************************************)
(* urlImport (lines 667-727).                                              *)
(***************************************************************************)
IsUrlFrame(pc) ==
  /\ Alive
  /\ stack # <<>>
  /\ Top.fn = "import" /\ Top.kind = "url" /\ Top.pc = pc

\* First three bytes of a downloaded file (fewer when the file is shorter).
\* Spec draws from Signatures, SpecLink from AllSignatures.
AllSignatures == { <<"7", "z", "BC">>, <<"R", "a", "r">>, <<"P", "K", "03">>,
                   <<"M", "Z", "90">>, <<"z", "7", "P">>, <<"P">>, <<>> }
Signatures == { <<"P", "K", "03">>, <<"M", "Z", "90">> }

\* lines 693, 701, 709: the branch taken for a signature
ArchiveFormat(sig) ==
  IF StartsWith(sig, <<"7", "z">>) THEN "SevenZip"
  ELSE IF StartsWith(sig, <<"R", "a", "r">>) THEN "Rar"
  ELSE IF StartsWith(sig, <<"P", "K">>) THEN "Zip"
  ELSE "Unknown"

\* lines 720-724: the except clauses, each a showError("Unpack error:", ...)
UnpackError(item, text) == Report("Unpack error:", By("url", item), text)

\* The top frame at position pc with the locals fmt and todo set.
SetSniffed(pc, fmt, todo) ==
  [stack EXCEPT ![Len(stack)].pc = pc,
                ![Len(stack)].loc.fmt = fmt,
                ![Len(stack)].loc.todo = todo]

\* lines 720-724: the text shown for the exception the try block raised,
\* rarfile.RarCannotExec or any other.
ExceptText(exc) ==
  IF exc = "RarCannotExec" THEN "WinRar 'unrar.exe' not found" ELSE "traceback"

\* lines 720-724: the exception exc leaves the try block, its except clause
\* calls showError and the finally clause comes next.
Caught(exc, fmt) ==
  /\ reports' = Append(reports, UnpackError(Top.item, ExceptText(exc)))
  /\ dialogs' = ShowError(dialogs)
  /\ stack' = [SetSniffed("finally", fmt, <<>>) EXCEPT ![Len(stack)].loc.exc = exc]

\* An exception other than RarCannotExec inside the try block.
Raised(fmt) == Caught("Exception", fmt)

\* Index of the first token tok of s at or after position i, 0 when none.
RECURSIVE Find(_, _, _)
Find(s, tok, i) ==
  IF i > Len(s) THEN 0 ELSE IF s[i] = tok THEN i ELSE Find(s, tok, i + 1)

\* url.split(":", 1)[1]
AfterScheme(url) == SubSeq(url, Find(url, ":", 1) + 1, Len(url))

RECURSIVE LStrip(_, _)
LStrip(s, tok) == IF s # <<>> /\ Head(s) = tok THEN LStrip(Tail(s), tok) ELSE s
RECURSIVE RStrip(_, _)
RStrip(s, tok) ==
  IF s # <<>> /\ s[Len(s)] = tok THEN RStrip(SubSeq(s, 1, Len(s) - 1), tok) ELSE s
\* str.strip("/")
Strip(s, tok) == RStrip(LStrip(s, tok), tok)

\* str.split(","): the fields between the separators, empty ones included
RECURSIVE Split(_, _)
Split(s, tok) ==
  LET i == Find(s, tok, 1) IN
  IF i = 0 THEN <<s>>
  ELSE <<SubSeq(s, 1, i - 1)>> \o Split(SubSeq(s, i + 1, Len(s)), tok)

\* The text a token sequence stands for.
RECURSIVE Str(_)
Str(s) == IF s = <<>> THEN "" ELSE Head(s) \o Str(Tail(s))

\* lines 670-671: data = url.split(":", 1)[1].strip("/"); data.split(",")
splitData(url) == Split(Strip(AfterScheme(url), "/"), ",")

\* line 674: tag, modId, dlId = data.split(",")
DlId(fields) == Str(fields[3])

\* line 675: zipUrl = f"http://gamebanana.com/dl/{dlId}"
ZipUrl(url) == "http://gamebanana.com/dl/" \o DlId(splitData(url))

\* Any number of fields but three, as a mutation would have it: at least three.
HasUnexpectedArity(fields) == Len(fields) < 3

\* line 673: len(splitData) == 3, negated
HasOtherArity(fields) == Len(fields) # 3

\* lines 668-685: parse the link; any number of fields but three returns at
\* line 678, three fields show the progress dialog.
urlImportParse ==
  /\ IsUrlFrame("begin")
  /\ IF HasOtherArity(splitData(Top.item.url))
       THEN /\ stack' = Pop(stack)
            /\ UNCHANGED dialogs
       ELSE /\ stack' = [stack EXCEPT ![Len(stack)].pc = "pe1",
                                      ![Len(stack)].loc.zipUrl = ZipUrl(Top.item.url)]
            /\ dialogs' = [dialogs EXCEPT !.progress = TRUE]
  /\ UNCHANGED routerVars
  /\ UNCHANGED <<mainPc, javaFound, controller, ctrlPc, timerOn, fatalShown,
                 queue, signal, readFlag, adding, emitters, wakes, scratch,
                 modsDir, commands, reports, pushed, yielded, preReg, drained,
                 escapes>>

\* QApplication.processEvents() returns (lines 686, 597, 698/706/714).
processEvents ==
  /\ Alive
  /\ InProcessEvents
  /\ stack' = SetTopPc(CASE Top.pc = "pe1" -> "download"
                         [] Top.pc = "dl_hook" -> "dl_end"
                         [] Top.pc = "extract_pe" -> "extract")
  /\ UNCHANGED <<routerVars, dialogs>>
  /\ UNCHANGED <<mainPc, javaFound, controller, ctrlPc, timerOn, fatalShown,
                 queue, signal, readFlag, adding, emitters, wakes, scratch,
                 modsDir, commands, reports, pushed, yielded, preReg, drained,
                 escapes>>

\* line 688, urlretrieve up to its first reporthook call: the request fails
\* before the scratch file is opened, or the file is opened for writing and
\* handleUpdateApp (lines 591-597) runs processEvents().
urlImportDownload ==
  /\ IsUrlFrame("download")
  /\ \E opened \in BOOLEAN :
       IF opened
         THEN /\ scratch' = [exists |-> TRUE, holders |-> scratch.holders + 1]
              /\ stack' = SetTopPc("dl_hook")
              /\ UNCHANGED <<reports, dialogs>>
         ELSE /\ Raised("")
              /\ UNCHANGED scratch
  /\ UNCHANGED routerVars
  /\ UNCHANGED <<mainPc, javaFound, controller, ctrlPc, timerOn, fatalShown,
                 queue, signal, readFlag, adding, emitters, wakes, modsDir,
                 commands, pushed, yielded, preReg, drained, escapes>>

\* line 688, the rest of urlretrieve: the file is closed; the transfer is
\* complete or it failed part way.
urlImportDownloaded ==
  /\ IsUrlFrame("dl_end")
  /\ scratch' = [scratch EXCEPT !.holders = @ - 1]
  /\ \E complete \in BOOLEAN :
       IF complete
         THEN /\ stack' = SetTopPc("sniff")
              /\ UNCHANGED <<reports, dialogs>>
         ELSE /\ Raised("")
  /\ UNCHANGED routerVars
  /\ UNCHANGED <<mainPc, javaFound, controller, ctrlPc, timerOn, fatalShown,
                 queue, signal, readFlag, adding, emitters, wakes, modsDir,
                 commands, pushed, yielded, preReg, drained, escapes>>

\* f".{core.MOD_FILE_FORMAT}", as tokens
ModSuffix == <<".", "bmod">>

\* Entry names of downloaded archives.
ReadmeTxt == <<"readme", ".", "txt">>
MBmod == <<"m", ".", "bmod">>
MBmodTxt == <<"m", ".", "bmod", ".", "txt">>
Bmod == <<"bmod">>
MUpper == <<"M", ".", "BMOD">>
SubNBmod == <<"sub", "/", "n", ".", "bmod">>

\* getnames() / namelist() of the archives a link can lead to.  Spec draws
\* from Archives, SpecLink from AllArchives.
AllArchives == { <<>>,
                 <<ReadmeTxt, MBmod>>,
                 <<MBmodTxt, Bmod, MUpper>>,
                 <<MBmod, ReadmeTxt, SubNBmod>> }
Archives == { <<ReadmeTxt, MBmod>>, <<MBmodTxt, Bmod, MUpper>> }

\* The entry test as a mutation would have it: every entry passes.
AnyEntry(name) == name = name

\* lines 696, 704, 712: file.endswith(f".{core.MOD_FILE_FORMAT}")
IsModEntry(name) ==
  /\ Len(name) >= Len(ModSuffix)
  /\ SubSeq(name, Len(name) - Len(ModSuffix) + 1, Len(name)) = ModSuffix

\* The entries the loop of lines 695-699 (703-707, 711-715) extracts, in order.
ToExtract(names) == SelectSeq(names, IsModEntry)

\* lines 690-698 (702-706, 710-714): read the signature, open the archive as
\* the format it names, list its entries and reach the first one that ends
\* with the mod extension.  The open raises when the scratch file is gone or
\* the archive is damaged; a Rar archive raises RarCannotExec when unrar is
\* missing; without Java the name core is unbound and the test of the first
\* entry raises NameError.  With an entry to extract the archive stays open
\* across processEvents().
urlImportSniffOf(signatures, archives) ==
  /\ IsUrlFrame("sniff")
  /\ IF ~scratch.exists
       THEN /\ Raised("")
            /\ UNCHANGED scratch
       ELSE \E sig \in signatures, opening \in {"ok", "damaged", "noexec"},
               names \in archives :
            LET fmt == ArchiveFormat(sig) IN
            IF fmt = "Unknown"
              THEN /\ stack' = SetSniffed("reload", fmt, <<>>)
                   /\ UNCHANGED <<scratch, reports, dialogs>>
              ELSE IF opening = "noexec" /\ fmt = "Rar"
                THEN /\ Caught("RarCannotExec", fmt)
                     /\ UNCHANGED scratch
              ELSE IF opening # "ok" \/ (~javaFound /\ names # <<>>)
                THEN /\ Raised(fmt)
                     /\ UNCHANGED scratch
              ELSE IF ToExtract(names) # <<>>
                THEN /\ scratch' = [scratch EXCEPT !.holders = @ + 1]
                     /\ stack' = SetSniffed("extract_pe", fmt, ToExtract(names))
                     /\ UNCHANGED <<reports, dialogs>>
                ELSE /\ stack' = SetSniffed("reload", fmt, <<>>)
                     /\ UNCHANGED <<scratch, reports, dialogs>>
  /\ UNCHANGED routerVars
  /\ UNCHANGED <<mainPc, javaFound, controller, ctrlPc, timerOn, fatalShown,
                 queue, signal, readFlag, adding, emitters, wakes, modsDir,
                 commands, pushed, yielded, preReg, drained, escapes>>

urlImportSniff == urlImportSniffOf(Signatures, Archives)
urlImportSniffAny == urlImportSniffOf(AllSignatures, AllArchives)

\* lines 699, 707, 715: the entry is written into the mods directory, or the
\* extraction raises (for a Rar archive also RarCannotExec, when the unrar
\* tool is needed only now).  The loop goes on to the next entry to extract (line
\* 698 and its like) or ends, and the archive is closed at the end of the
\* with block.
urlImportExtract ==
  /\ IsUrlFrame("extract")
  /\ LET name == Head(Top.loc.todo)
         rest == Tail(Top.loc.todo) IN
     \E extracting \in {"ok", "failed", "noexec"} :
       /\ extracting = "noexec" => Top.loc.fmt = "Rar"
       /\ IF extracting = "ok"
         THEN /\ modsDir' = WriteFile(modsDir, Str(name), By("url", Top.item))
              /\ UNCHANGED <<reports, dialogs>>
              /\ IF rest = <<>>
                   THEN /\ scratch' = [scratch EXCEPT !.holders = @ - 1]
                        /\ stack' = SetSniffed("reload", Top.loc.fmt, <<>>)
                   ELSE /\ stack' = SetSniffed("extract_pe", Top.loc.fmt, rest)
                        /\ UNCHANGED scratch
         ELSE /\ scratch' = [scratch EXCEPT !.holders = @ - 1]
              /\ Caught(IF extracting = "noexec" THEN "RarCannotExec" ELSE "Exception",
                        Top.loc.fmt)
              /\ UNCHANGED modsDir
  /\ UNCHANGED routerVars
  /\ UNCHANGED <<mainPc, javaFound, controller, ctrlPc, timerOn, fatalShown,
                 queue, signal, readFlag, adding, emitters, wakes, commands,
                 pushed, yielded, preReg, drained, escapes>>

\* lines 717-718: self.reloadMods(); self.progressDialog.hide().  With
\* self.controller None reloadMods raises inside the try block and the
\* generic except clause reports it.
urlImportReload ==
  /\ IsUrlFrame("reload")
  /\ IF controller = "None"
       THEN /\ Raised(Top.loc.fmt)
            /\ UNCHANGED commands
       ELSE /\ commands' = commands \o ReloadCommands(By("url", Top.item))
            /\ dialogs' = [dialogs EXCEPT !.progress = FALSE]
            /\ stack' = SetTopPc("finally")
            /\ UNCHANGED reports
  /\ UNCHANGED routerVars
  /\ UNCHANGED <<mainPc, javaFound, controller, ctrlPc, timerOn, fatalShown,
                 queue, signal, readFlag, adding, emitters, wakes, scratch,
                 modsDir, pushed, yielded, preReg, drained, escapes>>

\* os.remove(archivePath): the outcomes for a scratch file in state s.  A
\* missing file raises FileNotFoundError.  A file that another frame still
\* holds open is unlinked (POSIX) or raises PermissionError (Windows).
Remove(s) ==
  IF ~s.exists
    THEN {[exists |-> FALSE, holders |-> s.holders, raised |-> TRUE]}
    ELSE {[exists |-> FALSE, holders |-> s.holders, raised |-> FALSE]}
         \cup (IF s.holders > 0
                 THEN {[exists |-> TRUE, holders |-> s.holders, raised |-> TRUE]}
                 ELSE {})

\* line 727, the finally clause.  An exception raised by os.remove is caught
\* nowhere and leaves the slot queueUrl, whose generator is dropped before
\* line 121.
urlImportFinally ==
  /\ IsUrlFrame("finally")
  /\ \E r \in Remove(scratch) :
       /\ scratch' = [exists |-> r.exists, holders |-> r.holders]
       /\ IF r.raised
            THEN /\ stack' = Unwind(stack)
                 /\ escapes' = escapes + 1
            ELSE /\ stack' = Pop(stack)
                 /\ UNCHANGED escapes
  /\ UNCHANGED <<routerVars, dialogs>>
  /\ UNCHANGED <<mainPc, javaFound, controller, ctrlPc, timerOn, fatalShown,
                 queue, signal, readFlag, adding, emitters, wakes, modsDir,
                 commands, reports, pushed, yielded, preReg, drained>>

urlImport ==
  \/ urlImportParse
  \/ urlImportDownload
  \/ urlImportDownloaded
  \/ urlImportSniff
  \/ urlImportExtract
  \/ urlImportReload
  \/ urlImportFinally

\* urlImport over every signature and archive
urlImportAny ==
  \/ urlImportParse
  \/ urlImportDownload
  \/ urlImportDownloaded
  \/ urlImportSniffAny
  \/ urlImportExtract
  \/ urlImportReload
  \/ urlImportFinally

(***************************************************************************)
(* The program.                                                            *)
(***************************************************************************)
\* __init__, the controller thread, the poll timer and the fatal dialog
StartupPath ==
  \/ setUrlSignal
  \/ setFileSignal
  \/ startController
  \/ runController
  \/ TerminateApp
  \/ timeout
  \/ controllerHandler

\* the file import stream
FilePath ==
  \/ addFile
  \/ addFileSpawn
  \/ _emitFile
  \/ queueFile
  \/ iterFile
  \/ fileImport

\* the link import stream
UrlPath ==
  \/ addUrl
  \/ addUrlSpawn
  \/ _emitUrl
  \/ queueUrl
  \/ iterUrl
  \/ processEvents
  \/ urlImport

Next == StartupPath \/ FilePath \/ UrlPath

Spec == Init /\ [][Next]_vars

(***************************************************************************)
(* File imports alone, from every mods directory over ExistingNames.       *)
(***************************************************************************)
ExistingNames == {"a.bmod", "a (1).bmod", "a (2).bmod"}

InitImport ==
  /\ InitCommon
  /\ modsDir \in {[n \in S |-> <<"orig", 0>>] : S \in SUBSET ExistingNames}

SpecImport == InitImport /\ [][StartupPath \/ FilePath]_vars

(***************************************************************************)
(* The router alone: the engine sends envelopes, the poll timer ticks and  *)
(* the user answers the conflict dialog; nothing is imported.  (In Spec    *)
(* and SpecImport the engine stays silent.)                                *)
(***************************************************************************)
RouterPath ==
  \/ enginePush
  \/ acceptClick
  \/ cancelClick

SpecRouter == Init /\ [][StartupPath \/ RouterPath]_vars

(***************************************************************************)
(* The router with the mods screen: the engine sends the mods data and the *)
(* results of conflict checks, the user clicks the buttons of the selected *)
(* mod and answers the conflict dialog.                                    *)
(***************************************************************************)
UiEnvelopes ==
  { Notification(t, h) : t \in {"ModConflictNotFound", "ModConflict"},
                         h \in Hashes }
  \cup { Envelope("GetModsData", "", "", ModsData) }

UiPath ==
  \/ enginePushOf(UiEnvelopes)
  \/ acceptClick
  \/ cancelClick
  \/ installMod
  \/ uninstallMod
  \/ reinstallMod

SpecUi == Init /\ [][StartupPath \/ UiPath]_vars

(***************************************************************************)
(* One import at a time, over every input.  The initial state is the state *)
(* of Spec in which the startup has finished with Java found, one item has *)
(* been pushed and its wake signal is waiting for the event loop.          *)
(***************************************************************************)
InitStarted ==
  /\ mainPc = "exec"
  /\ javaFound = TRUE
  /\ controller = "Controller"
  /\ ctrlPc = "done"
  /\ timerOn = TRUE
  /\ fatalShown = FALSE
  /\ signal = [k \in Kinds |-> TRUE]
  /\ readFlag = [k \in Kinds |-> FALSE]
  /\ adding = [k \in Kinds |-> 0]
  /\ emitters = [k \in Kinds |-> 0]
  /\ stack = <<>>
  /\ scratch = [exists |-> FALSE, holders |-> 0]
  /\ commands = <<Command("setModsPath", Startup),
                  Command("reloadMods", Startup),
                  Command("getModsData", Startup),
                  Command("installBaseMod", Startup)>>
  /\ reports = <<>>
  /\ yielded = [k \in Kinds |-> <<>>]
  /\ preReg = [k \in Kinds |-> 0]
  /\ drained = [k \in Kinds |-> FALSE]
  /\ escapes = 0
  /\ outbox = <<>>
  /\ errors = <<>>
  /\ mods = NoMods
  /\ dialogs = NoDialogs
  /\ produced = <<>>
  /\ handled = <<>>

\* the one item is queued on queue k, with its wake emitted
Queued(k, item) ==
  /\ queue = [j \in Kinds |-> IF j = k THEN <<item>> ELSE <<>>]
  /\ pushed = [j \in Kinds |-> IF j = k THEN <<item>> ELSE <<>>]
  /\ wakes = [j \in Kinds |-> IF j = k THEN 1 ELSE 0]

InitLink ==
  /\ InitStarted
  /\ modsDir = InitialMods
  /\ \E item \in UrlsIn(AllUrls, 1) : Queued("url", item)

LinkNext ==
  \/ queueUrl
  \/ iterUrl
  \/ processEvents
  \/ urlImportAny

SpecLink == InitLink /\ [][LinkNext]_vars

InitFile ==
  /\ InitStarted
  /\ modsDir \in {[n \in S |-> <<"orig", 0>>] : S \in SUBSET ExistingNames}
  /\ \E item \in FilesIn(AllDirs, 1) : Queued("file", item)

FileNext ==
  \/ queueFile
  \/ iterFile
  \/ fileImport

SpecFile == InitFile /\ [][FileNext]_vars

(***************************************************************************)
(* The program under the scheduling the code relies on: __init__ runs on   *)
(* to the registration of both wake signals (lines 197-198), a producer    *)
(* that has appended goes on to its flag test, and a wake worker that is   *)
(* alive gets to run a pass of its loop again and again (it sleeps 0.1 s   *)
(* between passes).                                                        *)
(***************************************************************************)
WakeFairness ==
  /\ WF_vars(setUrlSignal)
  /\ WF_vars(setFileSignal)
  /\ WF_vars(addUrlSpawn)
  /\ WF_vars(addFileSpawn)
  /\ WF_vars(_emitUrl)
  /\ WF_vars(_emitFile)

\* The wake machinery over one link and one directory: what an item holds
\* has no part in the push or in the worker.  The poll timer is left out:
\* the engine is silent here and a poll of the empty outbox touches neither
\* the queues nor the workers.
WakeUrls == { Link(<<"t", ",", "7", ",", "42">>) }
WakeDirs == { Home }

WakeNext ==
  \/ setUrlSignal
  \/ setFileSignal
  \/ startController
  \/ runController
  \/ TerminateApp
  \/ addFileOf(WakeDirs)
  \/ addFileSpawn
  \/ _emitFile
  \/ queueFile
  \/ iterFile
  \/ fileImport
  \/ addUrlOf(WakeUrls)
  \/ addUrlSpawn
  \/ _emitUrl
  \/ queueUrl
  \/ iterUrl
  \/ processEvents
  \/ urlImport

SpecWake == Init /\ [][WakeNext]_vars /\ WakeFairness

(***************************************************************************)
(* Properties.                                                             *)
(***************************************************************************)
IsPrefix(s, t) == Len(s) <= Len(t) /\ SubSeq(t, 1, Len(s)) = s
NoDuplicates(s) == \A i, j \in 1..Len(s) : i # j => s[i] # s[j]
Frames(fn, k) == {i \in 1..Len(stack) : stack[i].fn = fn /\ stack[i].kind = k}
\* drains of queue k that have set the flag and not yet returned
ActiveDrains(k) == {i \in Frames("queue", k) : stack[i].pc # "start"}
\* drains of queue k that will still look at the queue
PollingDrains(k) == {i \in Frames("queue", k) : stack[i].pc \in {"start", "loop"}}

\* C1: the items pushed on a queue before its wake signal was registered are
\* all yielded, each exactly once and in push order, once a drain invoked
\* after the registration has run to exhaustion.
C1_PreRegistrationPushesDrainedInOrder ==
  \A k \in Kinds :
    drained[k] =>
      /\ IsPrefix(SubSeq(pushed[k], 1, preReg[k]), yielded[k])
      /\ NoDuplicates(yielded[k])

\* C1 witness: two items were pushed before the registration and a drain has
\* since run to exhaustion.
C1_Witness ==
  \E k \in Kinds : drained[k] /\ preReg[k] = 2 /\ Len(yielded[k]) = 2

\* C2: in every reachable state, under every interleaving of pushes with
\* drains, the items pushed on a queue are exactly the items yielded so far
\* followed by the items still queued: nothing is dropped, duplicated or
\* reordered.
C2_PushedIsYieldedThenQueued ==
  \A k \in Kinds : pushed[k] = yielded[k] \o queue[k]

\* C2 witness: a producer is in the middle of a push while a drain that has
\* already yielded an item is active.
C2_Witness ==
  \E k \in Kinds :
    /\ ActiveDrains(k) # {}
    /\ adding[k] > 0
    /\ yielded[k] # <<>>
    /\ queue[k] # <<>>

\* C3: every pushed item is eventually yielded without a further push: as
\* long as an item is queued, a drain that will still look at the queue is
\* running or a wake is on its way (a producer about to test the flag, a live
\* wake worker, or an emitted signal not yet delivered).  Stated for the runs
\* in which Java was found and no exception has left a slot.
C3_QueuedItemHasDrainOrWakeComing ==
  \A k \in Kinds :
    (javaFound /\ escapes = 0 /\ queue[k] # <<>>) =>
      \/ adding[k] > 0
      \/ emitters[k] > 0
      \/ wakes[k] > 0
      \/ PollingDrains(k) # {}

\* C4: at most one drain of a queue is active, and at most one item of a
\* queue is being processed, at any time (stated for the runs in which Java
\* was found).
C4_OneDrainAndOneImportPerQueue ==
  javaFound =>
    \A k \in Kinds :
      /\ Cardinality(ActiveDrains(k)) <= 1
      /\ Cardinality(Frames("import", k)) <= 1

\* Positions of urlImport from the start of the download to the deletion of
\* the scratch file.
PipelinePcs == {"dl_hook", "dl_end", "sniff", "extract_pe", "extract",
                "reload", "finally"}

\* C5: at most one execution of the archive pipeline is between its download
\* and its scratch file deletion at any time (stated for the runs in which
\* Java was found).
C5_ScratchPathUsedByOneRun ==
  javaFound =>
  Cardinality({i \in Frames("import", "url") : stack[i].pc \in PipelinePcs}) <= 1

\* C6: controllerHandler, queueFile and queueUrl never start while one of
\* them is still running: at most one slot is on the main thread's stack.
C6_OneSlotAtATime ==
  Cardinality({i \in 1..Len(stack) : IsSlot(stack[i])}) <= 1

\* C7: the end of an item's processing, failed or not, ends that item only:
\* the drain that yielded the item is still running afterwards, so the items
\* left in the queue are processed and the flag is reset at exhaustion
\* (stated for the runs in which the controller has been constructed).
C7_ItemEndLeavesDrainRunning ==
  [][(/\ controller = "Controller"
      /\ stack # <<>> /\ Top.fn = "import" /\ Len(stack') < Len(stack))
       => stack' = Pop(stack)]_vars

Finished(k) ==
  {yielded[k][i] : i \in 1..Len(yielded[k])}
    \ {stack[i].item : i \in Frames("import", k)}
Copied(item) == \E n \in DOMAIN modsDir : modsDir[n] = By("file", item)
Reported(k, item) == \E i \in 1..Len(reports) : reports[i].by = By(k, item)
ReloadsBy(by) ==
  {i \in 1..Len(commands) : commands[i] = Command("reloadMods", by)}
OneReloadBy(by) ==
  /\ Cardinality(ReloadsBy(by)) = 1
  /\ \A i \in ReloadsBy(by) :
       i < Len(commands) /\ commands[i + 1] = Command("getModsData", by)

\* C8: every item whose processing is over has issued exactly one reload
\* (reloadMods, then getModsData) if it completed (the file was copied into
\* the mods directory; the link had three fields and no error was reported),
\* and none otherwise (stated for the runs in which Java was found).
C8_OneReloadPerCompletedItem ==
  javaFound =>
  /\ \A item \in Finished("file") :
       IF Copied(item) THEN OneReloadBy(By("file", item))
                       ELSE ReloadsBy(By("file", item)) = {}
  /\ \A item \in Finished("url") :
       IF ~HasOtherArity(splitData(item.url)) /\ ~Reported("url", item)
         THEN OneReloadBy(By("url", item))
         ELSE ReloadsBy(By("url", item)) = {}

\* The destination the claim names: the basename if unused, else
\* "<stem> (n)<ext>" for the smallest n >= 1 whose name is unused.
IsClaimedDest(dir, item, name) ==
  IF Basename(item) \notin DOMAIN dir
    THEN name = Basename(item)
    ELSE \E n \in 1..(Cardinality(DOMAIN dir) + 1) :
           /\ name = Numbered(item, n)
           /\ name \notin DOMAIN dir
           /\ \A m \in 1..(n - 1) : Numbered(item, m) \in DOMAIN dir

\* C9: no step changes or removes a file already in the mods directory, and
\* a fileImport that adds a file adds exactly one, under the basename if it
\* is unused and else under "<stem> (n)<ext>" for the smallest unused n >= 1.
C9_FileImportNeverOverwrites ==
  [][/\ \A n \in DOMAIN modsDir :
          n \in DOMAIN modsDir' /\ modsDir'[n] = modsDir[n]
     /\ modsDir' # modsDir =>
          /\ stack # <<>> /\ Top.fn = "import" /\ Top.kind = "file"
          /\ \E name \in DOMAIN modsDir' :
               /\ DOMAIN modsDir' = DOMAIN modsDir \cup {name}
               /\ IsClaimedDest(modsDir, Top.item, name)
               /\ modsDir'[name] = By("file", Top.item)]_vars

\* C9 witness: with a.bmod present, a second a.bmod became "a (1).bmod" and a
\* third became "a (2).bmod", and a.bmod kept its content.
C9_Witness ==
  /\ DOMAIN modsDir = {"a.bmod", "a (1).bmod", "a (2).bmod"}
  /\ modsDir["a.bmod"] = <<"orig", 0>>
  /\ modsDir["a (1).bmod"] = <<"file", 1>>
  /\ modsDir["a (2).bmod"] = <<"file", 2>>

\* C10: when a run of the archive pipeline ends, by return or by exception,
\* the scratch file does not exist (stated for the runs in which Java was
\* found).
C10_ScratchAbsentAfterRun ==
  [][(javaFound /\ IsUrlFrame("finally") /\ stack' # stack)
       => ~scratch'.exists]_vars

(***************************************************************************)
(* Link parsing, archive sniffing and extraction.                          *)
(***************************************************************************)
\* The links of AllUrls that have three fields once the scheme and the
\* slashes are gone, and the address each one is downloaded from.
ThreeFieldLinks ==
  { Link(<<"t", ",", "7", ",", "42">>), Link(<<"t", ",", "7", ",", "42", "/">>),
    Link(<<"t", ",", "7", ",", "4", ":", "2">>), Link(<<",", ",">>) }
ExpectedZipUrl(url) ==
  CASE url = Link(<<"t", ",", "7", ",", "42">>) -> "http://gamebanana.com/dl/42"
    [] url = Link(<<"t", ",", "7", ",", "42", "/">>) -> "http://gamebanana.com/dl/42"
    [] url = Link(<<"t", ",", "7", ",", "4", ":", "2">>) -> "http://gamebanana.com/dl/4:2"
    [] url = Link(<<",", ",">>) -> "http://gamebanana.com/dl/"

C12_UnknownFormatIsSilent ==
  \A i \in 1..Len(stack) :
    (javaFound /\ stack[i].fn = "import" /\ stack[i].loc.fmt = "Unknown") =>
      /\ ~Reported("url", stack[i].item)
      /\ \A n \in DOMAIN modsDir : modsDir[n] # By("url", stack[i].item)

\* Names of the entries of AllArchives, as files of the mods directory.
ModEntryNames == {"m.bmod", "sub/n.bmod"}
OtherEntryNames == {"readme.txt", "m.bmod.txt", "bmod", "M.BMOD"}

\* C13: an extraction writes into the mods directory only the entries whose
\* name ends with "." and the mod extension; an entry with any other
\* extension is never written, whatever the archive format.
C13_OnlyModEntriesAreWritten ==
  /\ \A n \in OtherEntryNames : n \notin DOMAIN modsDir
  /\ \A n \in DOMAIN modsDir :
       modsDir[n] # <<"orig", 0>> => n \in ModEntryNames

\* C13 witness: the run of an archive that lists m.bmod, readme.txt and
\* sub/n.bmod has ended with both mod files extracted.
C13_Witness ==
  /\ stack = <<>>
  /\ drained["url"]
  /\ {"m.bmod", "sub/n.bmod"} \subseteq DOMAIN modsDir

(***************************************************************************)
(* The notification router.                                                *)
(***************************************************************************)
\* This step is the call of controllerHandler that takes envelope env.
Handling(env) ==
  /\ stack # <<>>
  /\ Top.fn = "controllerHandler"
  /\ stack' # stack
  /\ controller = "Controller"
  /\ outbox # <<>>
  /\ Head(outbox) = env

InstallBy(hash, by) == ModCommand("installMod", hash, by)
IssuesInstall ==
  /\ Len(commands') = Len(commands) + 1
  /\ commands'[Len(commands')].cmd = "installMod"

\* C14: on ModConflictNotFound(hash) the router sends exactly one
\* installMod(hash) and shows no dialog.
C14_NotFoundInstallsOnce ==
  [][\A h \in Hashes :
       Handling(Notification("ModConflictNotFound", h)) =>
         /\ commands' = Append(commands, InstallBy(h, Engine(Len(handled) + 1)))
         /\ UNCHANGED <<dialogs, reports>>]_vars

\* C14 witness: ModConflictNotFound for h2 was handled while the conflict
\* dialog of h1 was up; the install of h2 went out and the dialog is as it
\* was.
C14_Witness ==
  /\ Len(handled) = 2
  /\ handled[2] = Notification("ModConflictNotFound", "h2")
  /\ commands[Len(commands)] = InstallBy("h2", Engine(2))
  /\ dialogs.accept = [shown |-> TRUE, hash |-> "h1", env |-> 1]

\* C15: on ModConflict(hash, ...) the router sends no install; the dialog it
\* raises carries that hash.  An install goes out only for
\* ModConflictNotFound or when the user accepts the dialog that is up, and
\* then for the mod whose ModConflict raised that dialog, once; anything else
\* that takes the dialog down (cancel) sends nothing.
C15_ConflictInstallsOnlyOnAccept ==
  [][/\ \A h \in Hashes :
          Handling(Notification("ModConflict", h)) =>
            /\ commands' = commands
            /\ dialogs'.accept =
                 [shown |-> TRUE, hash |-> h, env |-> Len(handled) + 1]
     /\ IssuesInstall =>
          \/ Handling(Notification("ModConflictNotFound",
                                   commands'[Len(commands')].hash))
          \/ /\ dialogs.accept.shown
             /\ ~dialogs'.accept.shown
             /\ handled[dialogs.accept.env] =
                  Notification("ModConflict", dialogs.accept.hash)
             /\ commands' = Append(commands,
                                   InstallBy(dialogs.accept.hash,
                                             Accept(dialogs.accept.env)))
     /\ \A i, j \in 1..Len(commands') :
          (commands'[i].by = commands'[j].by /\ commands'[i].by[1] = "accept")
            => i = j]_vars

\* C15 witness: ModConflict for h1 and then for h2 were handled, the user
\* accepted, and the one install sent is that of h2.
C15_Witness ==
  /\ Len(handled) = 2
  /\ handled[1] = Notification("ModConflict", "h1")
  /\ handled[2] = Notification("ModConflict", "h2")
  /\ commands[Len(commands)] = InstallBy("h2", Accept(2))
  /\ ~dialogs.accept.shown

SoftErrors == {env \in Envelopes : env.ntype \in SoftErrorKinds}
Checkpoints ==
  { Notification(t, h) : t \in {"InstallingModFinished",
                                "UninstallingModFinished"},
                         h \in Hashes }
  \cup { Envelope("GetModsData", "", "", ModsData) }

\* C16: a soft error is appended to the buffer and not shown when it is
\* received; at each checkpoint (InstallingModFinished,
\* UninstallingModFinished, mods data loaded) a non-empty buffer is drained
\* into one report with one line per buffered notification, and the buffer
\* is empty afterwards.  Stated for a loaded mod table.
C16_BufferDrainedAtCheckpoints ==
  [][/\ \A env \in SoftErrors :
          Handling(env) => /\ errors' = Append(errors, env)
                           /\ UNCHANGED <<reports, dialogs>>
     /\ \A env \in Checkpoints :
          (mods # NoMods /\ Handling(env)) =>
            /\ errors' = <<>>
            /\ reports' = IF errors = <<>> THEN reports
                          ELSE Append(reports,
                                      Report("Errors:", Engine(Len(handled) + 1),
                                             ErrorsText(errors)))]_vars

\* C17: the envelopes are handled in the order the engine sent them, each
\* exactly once; a poll handles at most one envelope and changes nothing
\* when the controller does not exist yet or nothing is pending.
C17_EnvelopesHandledInOrderOnce ==
  [][/\ produced' = handled' \o outbox'
     /\ Len(handled') <= Len(handled) + 1
     /\ (/\ stack # <<>>
         /\ Top.fn = "controllerHandler"
         /\ stack' # stack
         /\ (controller = "None" \/ outbox = <<>>))
          => /\ stack' = Pop(stack)
             /\ UNCHANGED <<commands, reports, escapes, routerVars, dialogs,
                            modsDir>>]_vars

\* C17 witness: two different envelopes have been handled in the order they
\* were sent and a third one, different from the second, is pending.
C17_Witness ==
  /\ Len(handled) = 2
  /\ Len(outbox) = 1
  /\ handled[1] # handled[2]
  /\ outbox[1] # handled[2]
  /\ produced = handled \o outbox

\* C18: a notification of a kind the router has no branch for is a no-op:
\* no command, the error buffer, the installed flags and the dialogs
\* unchanged, no exception.
C18_UnknownKindIsNoOp ==
  [][Handling(Notification("FutureKind", "h1")) =>
       /\ stack' = Pop(stack)
       /\ UNCHANGED <<commands, errors, mods, dialogs, reports, escapes>>]_vars

\* C18 witness: a notification of an unknown kind was handled last, with a
\* soft error buffered and the conflict dialog up, and both are as before.
C18_Witness ==
  /\ Len(handled) = 3
  /\ handled[3] = Notification("FutureKind", "h1")
  /\ Len(errors) = 1
  /\ dialogs.accept.shown
  /\ escapes = 0

\* C19: fileImport of a path inside the mods directory is a silent no-op (no
\* file created or changed, no reload), and a path outside the mods
\* directory is never turned away by that test: it is copied, or the copy
\* raises.
C19_OnlyPathsInsideModsAreSkipped ==
  [][(/\ stack # <<>>
      /\ Top.fn = "import" /\ Top.kind = "file" /\ Top.pc = "begin"
      /\ stack' # stack) =>
       IF Top.item.dir \in {ModsPath, ModsSub}
         THEN /\ stack' = Pop(stack)
              /\ UNCHANGED <<modsDir, commands, escapes, reports>>
         ELSE modsDir' # modsDir \/ escapes' # escapes]_vars

\* C20: InstallingModFinished(hash) sets the installed flag of that mod,
\* UninstallingModFinished(hash) clears it, and both then hide the progress
\* dialog and flush the error buffer, for every hash the engine reports.
\* Stated for a loaded mod table.
C20_FinishedSetsFlagAndFlushes ==
  [][\A h \in Hashes, installed \in BOOLEAN :
       (/\ mods # NoMods
        /\ Handling(Notification(IF installed THEN "InstallingModFinished"
                                 ELSE "UninstallingModFinished", h))) =>
         /\ h \in DOMAIN mods'
         /\ mods'[h] = installed
         /\ ~dialogs'.progress
         /\ errors' = <<>>]_vars

(***************************************************************************)
(* C21: a push never blocks the producer (after the append its flag test   *)
(* can always run), and every wake worker spawned by a push terminates:    *)
(* it ends only in a pass that finds the signal registered and emits       *)
(* exactly one wake, and once the signal is registered every live worker   *)
(* of the queue ends (or the process has been terminated).                 *)
(***************************************************************************)
WorkerEnds(k) == emitters'[k] < emitters[k]

C21_WakeWorkerEmitsOnceAndEnds ==
  /\ [](\A k \in Kinds : (Alive /\ adding[k] > 0) => ENABLED addSpawn(k))
  /\ [][\A k \in Kinds : WorkerEnds(k) =>
          /\ signal[k]
          /\ emitters'[k] = emitters[k] - 1
          /\ wakes'[k] = wakes[k] + 1]_vars
  /\ \A k \in Kinds : (emitters[k] > 0) ~> (emitters[k] = 0 \/ ~Alive)
  /\ \A k \in Kinds : (adding[k] > 0) ~> (adding[k] = 0 \/ ~Alive)

\* a worker spawned before the signal was registered has emitted and ended
C21_Witness ==
  \E k \in Kinds :
    /\ preReg[k] > 0
    /\ signal[k]
    /\ emitters[k] = 0
    /\ adding[k] = 0
    /\ wakes[k] > 0

(***************************************************************************)
(* C22: without Java the fatal error is reported and its Ok button         *)
(* terminates the process, the controller and the poll timer are never     *)
(* started, and nothing is attempted afterwards: no import item is taken   *)
(* from a queue, nothing is written to the mods directory and no command   *)
(* is sent to the engine.                                                  *)
(***************************************************************************)
FatalReported ==
  /\ fatalShown
  /\ reports # <<>>
  /\ reports[1] = Report("Fatal Error:", Startup, "Java not found!")

OkTerminates == dialogs.buttons /\ dialogs.ok = "TerminateApp"

NothingStarted == controller = "None" /\ ctrlPc = "idle" /\ ~timerOn

NoItemProcessed ==
  /\ \A k \in Kinds : yielded[k] = <<>>
  /\ modsDir = InitialMods
  /\ Len(reports) <= 1

C22_JavaAbsentStopsEverything ==
  ~javaFound =>
    /\ mainPc \in {"exec", "terminated"} => FatalReported
    /\ mainPc = "exec" => OkTerminates
    /\ NothingStarted
    /\ commands = <<>>
    /\ NoItemProcessed

(***************************************************************************)
(* C23: an exception raised by the download, the sniffing, the opening or  *)
(* the extraction produces exactly one "Unpack error:" report for the      *)
(* item, the short text for RarCannotExec and the trace for any other      *)
(* exception; a run in which these steps succeed produces none, no other   *)
(* step of the pipeline reports, and no item is reported twice (stated for *)
(* the runs in which Java was found).                                      *)
(***************************************************************************)
TryPcs == {"download", "dl_end", "sniff", "extract", "reload"}

\* the top frame is an archive pipeline whose try block ends in this step
TryEnds ==
  /\ stack # <<>>
  /\ Top.fn = "import" /\ Top.kind = "url" /\ Top.pc \in TryPcs
  /\ Len(stack') = Len(stack)
  /\ stack'[Len(stack)].pc = "finally"

UnpackReportsBy(item) ==
  {i \in 1..Len(reports) : reports[i] \in {UnpackError(item, "traceback"),
                                            UnpackError(item, "WinRar 'unrar.exe' not found")}}

C23_OneUnpackErrorPerException ==
  /\ [][javaFound =>
        IF TryEnds
          THEN LET exc == stack'[Len(stack)].loc.exc
                   fmt == stack'[Len(stack)].loc.fmt IN
               IF Top.pc = "reload" THEN reports' = reports
               ELSE IF exc = "RarCannotExec"
                 THEN /\ fmt = "Rar"
                      /\ reports' = Append(reports,
                                     UnpackError(Top.item, "WinRar 'unrar.exe' not found"))
                 ELSE /\ exc = "Exception"
                      /\ reports' = Append(reports, UnpackError(Top.item, "traceback"))
          ELSE reports' # reports => reports'[Len(reports')].title # "Unpack error:"]_vars
  /\ [](\A k \in Kinds : \A i \in 1..Len(pushed[k]) :
          Cardinality(UnpackReportsBy(pushed[k][i])) <= 1)

(***************************************************************************)
(* C24: the drain flag of a queue is true exactly while a drain of that    *)
(* queue has started and not yet finished, and a producer that tests the   *)
(* flag while no drain of the queue is running spawns a wake worker        *)
(* (stated for the runs in which Java was found).                          *)
(***************************************************************************)
C24_DrainFlagIsTruthful ==
  /\ [](javaFound => \A k \in Kinds : readFlag[k] <=> ActiveDrains(k) # {})
  /\ [][javaFound =>
        \A k \in Kinds :
          (adding'[k] < adding[k] /\ ActiveDrains(k) = {})
            => emitters'[k] = emitters[k] + 1]_vars

(***************************************************************************)
(* C25: every installMod(hash) sent to the engine answers a conflict-check *)
(* result for the same hash: it was sent on handling ModConflictNotFound   *)
(* (hash) or on the accept of the dialog raised by ModConflict(hash).  The *)
(* buttons of the mods screen never send it: install sends getModConflict, *)
(* uninstall sends uninstallMod, reinstall sends uninstallMod and then     *)
(* getModConflict.                                                         *)
(***************************************************************************)
AnswersConflictCheck(c) ==
  \E n \in 1..Len(handled) :
    \/ c.by = Engine(n) /\ handled[n] = Notification("ModConflictNotFound", c.hash)
    \/ c.by = Accept(n) /\ handled[n] = Notification("ModConflict", c.hash)

Sent == SubSeq(commands', Len(commands) + 1, Len(commands'))

C25_InstallFollowsConflictCheck ==
  /\ [](\A i \in 1..Len(commands) :
          commands[i].cmd = "installMod" => AnswersConflictCheck(commands[i]))
  /\ [][(Len(commands') > Len(commands) /\ commands'[Len(commands')].by[1] = "ui")
          => \E h \in DOMAIN mods :
               LET by == Ui(Cardinality(Clicks) + 1) IN
               Sent \in { <<ModCommand("getModConflict", h, by)>>,
                          <<ModCommand("uninstallMod", h, by)>>,
                          <<ModCommand("uninstallMod", h, by),
                            ModCommand("getModConflict", h, by)>> }]_vars

\* C25 witness: the install button was clicked for h1, the engine answered
\* ModConflictNotFound(h1) and the install went out on that answer; before,
\* a reinstall click had sent its two commands.
C25_Witness ==
  /\ \E i \in 1..Len(commands) :
       /\ commands[i].cmd = "installMod"
       /\ commands[i].by[1] = "engine"
       /\ \E j \in 1..(i - 1) : commands[j] = ModCommand("getModConflict", "h1", Ui(2))
  /\ \E j \in 1..Len(commands) : commands[j] = ModCommand("uninstallMod", "h1", Ui(1))

(***************************************************************************)
(* C26: whenever urlImport stands at its reload step (line 717), and       *)
(* whenever fileImport has copied its file and goes on to reload (lines    *)
(* 655-657), the controller has been constructed (stated for the runs in   *)
(* which Java was found).                                                  *)
(***************************************************************************)
AtUrlReload ==
  stack # <<>> /\ Top.fn = "import" /\ Top.kind = "url" /\ Top.pc = "reload"

FileCopied ==
  /\ stack # <<>> /\ Top.fn = "import" /\ Top.kind = "file"
  /\ modsDir' # modsDir

C26_ReloadOnlyWithController ==
  /\ []((javaFound /\ AtUrlReload) => controller = "Controller")
  /\ [][(javaFound /\ FileCopied) => controller = "Controller"]_vars

====
